---------------------------- MODULE Spec2Model ----------------------------
(***************************************************************************)
(* A model of the decklist parsing and reconciliation engine of the MTG    *)
(* collection application:                                                 *)
(*   - the rate-limited lookup client   (services/scryfallApi.js),         *)
(*   - the decklist tokenizer and the name resolution engine               *)
(*     (parseDeckList, getCardByFuzzyName in services/scryfallApi.js),     *)
(*   - the collection / deck reconciler (services/storageService.js and    *)
(*     context/CollectionContext.js).                                      *)
(*                                                                         *)
(* Text is modelled as a sequence of one-character strings.  JavaScript    *)
(* arrays are sequences; an index of -1 ("not found") is 0 here because    *)
(* sequences are 1-based.                                                  *)
(***************************************************************************)
EXTENDS Integers, Sequences, FiniteSets, TLC

VARIABLES
    \* ---- the persisted-object store and the React context ----
    store,            \* AsyncStorage value under COLLECTION_KEY (a list of entries)
    decksStore,       \* AsyncStorage value under DECKS_KEY (a list of decks)
    collection,       \* CollectionProvider's `collection` state
    clock,            \* Date.now(), in milliseconds
    last,             \* the last completed reconciler call: its arguments and outcome
    ncalls,           \* the number of reconciler calls completed in this run
    \* ---- the rate-limited lookup client ----
    now,              \* Date.now() as seen by the lookup client
    lastRequestTime,  \* module-level `let lastRequestTime`
    pc,               \* per caller: where it is inside rateLimitedFetch
    wake,             \* per caller: the time its delay() timer is due
    fired,            \* the times at which fetch() was called, in call order
    \* ---- the name resolution engine ----
    rpc,              \* where the resolution call is
    decklistText,     \* parseDeckList's first argument
    lang,             \* the language preference argument
    provider,         \* the lookup provider's behaviour for this run
    cards,            \* parseDeckList's `cards`
    results,          \* the `results` under construction (getCardCollection's, parseDeckList's)
    idx,              \* the position of the loop in progress (1-based)
    batch,            \* what getCardCollection returned or threw
    calls,            \* the lookups issued so far, in order
    outcome,          \* what the resolution call returned or threw
    \* ---- overlapping calls and the search screen ----
    tasks,            \* per overlapping storage call: its position and its loaded list
    screen,           \* SearchScreen's state: results, loading, currentPage, hasMore, currentQuery
    requests          \* the searches SearchScreen is awaiting

storeVars   == <<store, decksStore, collection, clock, last, ncalls>>
fetchVars   == <<now, lastRequestTime, pc, wake, fired>>
resolveVars == <<rpc, decklistText, lang, provider, cards, results, idx, batch, calls, outcome>>
uiVars      == <<tasks, screen, requests>>
vars        == <<storeVars, fetchVars, resolveVars, uiVars>>

\* JavaScript's null / undefined where the other values are objects.
NULL == [ null |-> TRUE ]
\* The absent language preference (lang = null).
NoLang == "none"

-----------------------------------------------------------------------------
(***************************************************************************)
(* Generic helpers for JavaScript array operations.                        *)
(***************************************************************************)

\* Array.prototype.findIndex: the smallest of the indices S that satisfy the
\* callback, 0 when there is none.
FirstIndex(S) ==
    IF S = {} THEN 0 ELSE CHOOSE i \in S : \A j \in S : i <= j

\* Array.prototype.splice(i, 1)
RemoveAt(s, i) == SubSeq(s, 1, i-1) \o SubSeq(s, i+1, Len(s))

-----------------------------------------------------------------------------
(***************************************************************************)
(* The card catalog (the external provider's records).  Only the fields    *)
(* the reconciler compares are kept: the catalog id and the canonical      *)
(* name.  Cards 1 and 2 are two printings of one card: distinct ids, the   *)
(* same name.  The other snapshotted fields (set, rarity, prices, ...) are *)
(* copied verbatim by the code and never read by it.                       *)
(***************************************************************************)
Catalog ==
    { [id |-> 1, name |-> <<"A">>],
      [id |-> 2, name |-> <<"A">>],
      [id |-> 3, name |-> <<"B">>] }

CardIds == { c.id : c \in Catalog }

\* Bounds of the reconciler model.
MaxCalls == 2    \* a run makes at most MaxCalls reconciler calls
MaxAdd   == 2    \* quantities passed to an add or a remove: 1..MaxAdd
MaxItems == 2    \* resolved decklists have 1..MaxItems entries
MaxClock == 1    \* the clock runs 0..MaxClock

Quantities == 1..MaxAdd

-----------------------------------------------------------------------------
(***************************************************************************)
(* services/storageService.js: the collection.                             *)
(***************************************************************************)

\* The object literal pushed by addCardToCollection, addDecklistToCollection
\* and the context's addCardsToCollection for a card that is not yet present.
NewCollectionEntry(card, quantity, t) ==
    [ id         |-> card.id,
      scryfallId |-> card.id,
      name       |-> card.name,
      quantity   |-> quantity,
      addedAt    |-> t,
      foil       |-> FALSE ]

\* findIndex(c => c.id === id || c.scryfallId === id)
IndexById(coll, id) ==
    FirstIndex({ k \in 1..Len(coll) : coll[k].id = id \/ coll[k].scryfallId = id })

\* findIndex(c => c.id === card.id || c.scryfallId === card.id || c.name === card.name)
IndexByIdOrName(coll, card) ==
    FirstIndex({ k \in 1..Len(coll) :
                   \/ coll[k].id = card.id
                   \/ coll[k].scryfallId = card.id
                   \/ coll[k].name = card.name })

\* loadCollection(): the stored list (an absent key reads as []).
loadCollection == store

\* A faulty addCard, refreshing addedAt when it merges.
addCard_RestampsMerged(coll, card, quantity, t) ==
    LET existingIndex == IndexById(coll, card.id) IN
    IF existingIndex > 0
    THEN [coll EXCEPT ![existingIndex].quantity = @ + quantity,
                      ![existingIndex].addedAt = t]
    ELSE Append(coll, NewCollectionEntry(card, quantity, t))

\* A faulty addCard, never looking for an existing entry.
addCard_AlwaysAppends(coll, card, quantity, t) ==
    Append(coll, NewCollectionEntry(card, quantity, t))

\* The list addCardToCollection builds between its load and its save.
addCard(coll, card, quantity, t) ==
    LET existingIndex == IndexById(coll, card.id) IN
    IF existingIndex > 0
    THEN [coll EXCEPT ![existingIndex].quantity = @ + quantity]
    ELSE Append(coll, NewCollectionEntry(card, quantity, t))

\* A faulty removeCard, deleting only below zero: it leaves an entry at quantity 0.
removeCard_KeepsZero(coll, cardId, quantity) ==
    LET existingIndex == IndexById(coll, cardId) IN
    IF existingIndex > 0
    THEN IF coll[existingIndex].quantity - quantity < 0
         THEN RemoveAt(coll, existingIndex)
         ELSE [coll EXCEPT ![existingIndex].quantity = @ - quantity]
    ELSE coll

\* The list removeCardFromCollection builds between its load and its save.
removeCard(coll, cardId, quantity) ==
    LET existingIndex == IndexById(coll, cardId) IN
    IF existingIndex > 0
    THEN IF coll[existingIndex].quantity - quantity <= 0
         THEN RemoveAt(coll, existingIndex)
         ELSE [coll EXCEPT ![existingIndex].quantity = @ - quantity]
    ELSE coll

\* { ...entry, ...updates }: the fields of updates replace those of entry.
Spread(entry, updates) ==
    [ f \in DOMAIN entry |-> IF f \in DOMAIN updates THEN updates[f] ELSE entry[f] ]

\* The list updateCardInCollection builds between its load and its save.
updateCard(coll, cardId, updates) ==
    LET existingIndex == IndexById(coll, cardId) IN
    IF existingIndex > 0
    THEN [coll EXCEPT ![existingIndex] = Spread(@, updates)]
    ELSE coll

\* One iteration of addDecklistToCollection's loop over parsedCards.
addDecklistItem(coll, item, t) ==
    IF ~item.found \/ item.cardData = NULL THEN coll
    ELSE LET card          == item.cardData
             existingIndex == IndexByIdOrName(coll, card)
         IN  IF existingIndex > 0
             THEN [coll EXCEPT ![existingIndex].quantity = @ + item.quantity]
             ELSE Append(coll, NewCollectionEntry(card, item.quantity, t))

\* The list addDecklistToCollection builds between its load and its save.
RECURSIVE addDecklist(_, _, _)
addDecklist(coll, parsedCards, t) ==
    IF parsedCards = <<>> THEN coll
    ELSE addDecklist(addDecklistItem(coll, Head(parsedCards), t), Tail(parsedCards), t)

\* One iteration of the context's addCardsToCollection loop.
addCardsItem(coll, entry, t) == addCard(coll, entry.card, entry.quantity, t)

\* The list the context's addCardsToCollection builds from its `collection` state.
RECURSIVE addCards(_, _, _)
addCards(coll, cardsToAdd, t) ==
    IF cardsToAdd = <<>> THEN coll
    ELSE addCards(addCardsItem(coll, Head(cardsToAdd), t), Tail(cardsToAdd), t)

\* saveCollection(list): the write succeeds (saveOk) or throws inside the try,
\* which is caught and turned into `return false`; the store is then unchanged.
saveCollection(list, saveOk) == IF saveOk THEN list ELSE store

-----------------------------------------------------------------------------
(***************************************************************************)
(* services/storageService.js: the decks.                                  *)
(***************************************************************************)

\* loadDecks(): the stored list (an absent key reads as []).
loadDecks == decksStore

\* saveDecks(list): as saveCollection.
saveDecks(list, saveOk) == IF saveOk THEN list ELSE decksStore

\* decks.findIndex(d => d.id === deckId)
DeckIndex(decks, deckId) ==
    FirstIndex({ k \in 1..Len(decks) : decks[k].id = deckId })

\* The object createDeck builds; the id is Date.now().toString().
NewDeck(deckData, t) ==
    [ id        |-> t,
      commander |-> deckData.commander,
      cards     |-> deckData.cards,
      createdAt |-> t,
      updatedAt |-> t ]

\* The DeckCardRef pushed by addCardToDeck.
NewDeckCard(card, quantity) ==
    [ id |-> card.id, scryfallId |-> card.id, name |-> card.name, quantity |-> quantity ]

\* The cards list addCardToDeck builds for the deck it found.
addDeckCard(deckCards, card, quantity) ==
    LET existingCardIndex == IndexByIdOrName(deckCards, card) IN
    IF existingCardIndex > 0
    THEN [deckCards EXCEPT ![existingCardIndex].quantity = @ + quantity]
    ELSE Append(deckCards, NewDeckCard(card, quantity))

\* The cards list removeCardFromDeck builds for the deck it found.
removeDeckCard(deckCards, cardId, quantity) ==
    LET cardIndex == IndexById(deckCards, cardId) IN
    IF cardIndex > 0
    THEN IF deckCards[cardIndex].quantity - quantity <= 0
         THEN RemoveAt(deckCards, cardIndex)
         ELSE [deckCards EXCEPT ![cardIndex].quantity = @ - quantity]
    ELSE deckCards

\* The cards list updateCardInDeck builds for the deck it found.
updateDeckCard(deckCards, cardId, quantity) ==
    LET cardIndex == IndexById(deckCards, cardId) IN
    IF cardIndex > 0
    THEN IF quantity <= 0
         THEN RemoveAt(deckCards, cardIndex)
         ELSE [deckCards EXCEPT ![cardIndex].quantity = quantity]
    ELSE deckCards

\* A faulty DecklistDeckCards, storing every card once whatever its quantity.
RECURSIVE DecklistDeckCards_QuantityOne(_)
DecklistDeckCards_QuantityOne(parsedCards) ==
    IF parsedCards = <<>> THEN <<>>
    ELSE LET item == Head(parsedCards) IN
         (IF item.found /\ item.cardData # NULL
          THEN << NewDeckCard(item.cardData, 1) >>
          ELSE << >>) \o DecklistDeckCards_QuantityOne(Tail(parsedCards))

\* createDeckFromDecklist: parsedCards.filter(found && cardData).map(snapshot)
RECURSIVE DecklistDeckCards(_)
DecklistDeckCards(parsedCards) ==
    IF parsedCards = <<>> THEN <<>>
    ELSE LET item == Head(parsedCards) IN
         (IF item.found /\ item.cardData # NULL
          THEN << NewDeckCard(item.cardData, item.quantity) >>
          ELSE << >>) \o DecklistDeckCards(Tail(parsedCards))

-----------------------------------------------------------------------------
(***************************************************************************)
(* Inputs of the reconciler.                                               *)
(***************************************************************************)

\* One element of parseDeckList's result, as the import screen hands it on.
FoundItem(card, quantity) ==
    [ name |-> card.name, quantity |-> quantity, cardData |-> card, found |-> TRUE ]

NotFoundItem(quantity) ==
    [ name |-> <<"z">>, quantity |-> quantity, cardData |-> NULL, found |-> FALSE ]

ParsedItems ==
    { FoundItem(c, q) : c \in Catalog, q \in Quantities } \cup
    { NotFoundItem(q) : q \in Quantities }

\* Non-empty lists of at most n elements of S.
ListsUpTo(S, n) == UNION { [1..k -> S] : k \in 1..n }

ParsedLists == ListsUpTo(ParsedItems, MaxItems)

\* The quantity an entry of `list` matching `id` holds, 0 when there is none.
QuantityOf(list, id) ==
    LET i == IndexById(list, id) IN IF i > 0 THEN list[i].quantity ELSE 0

\* The `updates` objects passed to updateCardInCollection: the mutable,
\* local-only fields of a CollectionEntry.
Updates ==
    { [quantity |-> q] : q \in 0..MaxAdd } \cup { [foil |-> f] : f \in BOOLEAN }

\* Files offered to importCollectionFromJSON: snapshots written by
\* exportCollectionToJSON (a key that is absent from the file is absent here).
ImportFiles ==
    { [collection |-> <<>>, decks |-> <<>>],
      [collection |-> << NewCollectionEntry([id |-> 3, name |-> <<"B">>], 2, 0) >>] }

NoCall ==
    [ op |-> "none", args |-> <<>>, pre |-> <<>>, preCtx |-> <<>>,
      result |-> NULL, saveOk |-> TRUE, reported |-> TRUE ]

\* A run is cut off after MaxCalls calls.
Counted == ncalls < MaxCalls /\ ncalls' = ncalls + 1

Call(op, args, pre, result, saveOk, reported) ==
    [ op |-> op, args |-> args, pre |-> pre, preCtx |-> collection,
      result |-> result, saveOk |-> saveOk, reported |-> reported ]

-----------------------------------------------------------------------------
(***************************************************************************)
(* context/CollectionContext.js and the direct callers of the storage      *)
(* service: one action per call, from its load to its return.              *)
(***************************************************************************)

\* CollectionContext.addCardToCollection(card, quantity)
addCardToCollection(card, quantity, saveOk) ==
    LET updatedCollection == addCard(loadCollection, card, quantity, clock) IN
    /\ Counted
    /\ store' = saveCollection(updatedCollection, saveOk)
    /\ collection' = updatedCollection
    /\ last' = Call("addCardToCollection", [card |-> card, quantity |-> quantity],
                    store, updatedCollection, saveOk, TRUE)
    /\ UNCHANGED <<decksStore, clock>>

\* CollectionContext.removeCardFromCollection(cardId, quantity)
removeCardFromCollection(cardId, quantity, saveOk) ==
    LET updatedCollection == removeCard(loadCollection, cardId, quantity) IN
    /\ Counted
    /\ store' = saveCollection(updatedCollection, saveOk)
    /\ collection' = updatedCollection
    /\ last' = Call("removeCardFromCollection", [cardId |-> cardId, quantity |-> quantity],
                    store, updatedCollection, saveOk, TRUE)
    /\ UNCHANGED <<decksStore, clock>>

\* CollectionContext.updateCardInCollection(cardId, updates)
updateCardInCollection(cardId, updates, saveOk) ==
    LET updatedCollection == updateCard(loadCollection, cardId, updates) IN
    /\ Counted
    /\ store' = saveCollection(updatedCollection, saveOk)
    /\ collection' = updatedCollection
    /\ last' = Call("updateCardInCollection", [cardId |-> cardId, updates |-> updates],
                    store, updatedCollection, saveOk, TRUE)
    /\ UNCHANGED <<decksStore, clock>>

\* CollectionContext.addCardsToCollection(cards): merges into the context's
\* own `collection` state, not into a freshly loaded list.
addCardsToCollection(parsedCards, saveOk) ==
    LET cardsToAdd ==
            [ k \in 1..Len(parsedCards) |->
                [card |-> parsedCards[k].cardData, quantity |-> parsedCards[k].quantity] ]
        updatedCollection == addCards(collection, cardsToAdd, clock)
    IN
    /\ Counted
    /\ \A k \in 1..Len(parsedCards) : parsedCards[k].found
    /\ store' = saveCollection(updatedCollection, saveOk)
    /\ collection' = updatedCollection
    /\ last' = Call("addCardsToCollection", [cards |-> cardsToAdd],
                    store, updatedCollection, saveOk, TRUE)
    /\ UNCHANGED <<decksStore, clock>>

\* storageService.addDecklistToCollection(parsedCards), called by the import screen.
addDecklistToCollection(parsedCards, saveOk) ==
    LET updated == addDecklist(loadCollection, parsedCards, clock) IN
    /\ Counted
    /\ store' = saveCollection(updated, saveOk)
    /\ last' = Call("addDecklistToCollection", [parsedCards |-> parsedCards],
                    store, updated, saveOk, TRUE)
    /\ UNCHANGED <<decksStore, collection, clock>>

\* storageService.importCollectionFromJSON(jsonString), data = JSON.parse(jsonString)
importCollectionFromJSON(data, saveOk) ==
    /\ Counted
    /\ store' = IF "collection" \in DOMAIN data
                THEN saveCollection(data.collection, saveOk)
                ELSE store
    /\ decksStore' = IF "decks" \in DOMAIN data
                     THEN saveDecks(data.decks, saveOk)
                     ELSE decksStore
    /\ last' = Call("importCollectionFromJSON", [data |-> data],
                    store, NULL, saveOk, TRUE)
    /\ UNCHANGED <<collection, clock>>

\* CollectionContext.loadData (mount, refresh)
loadData ==
    /\ Counted
    /\ collection' = loadCollection
    /\ last' = Call("loadData", <<>>, store, store, TRUE, TRUE)
    /\ UNCHANGED <<store, decksStore, clock>>

-----------------------------------------------------------------------------
(***************************************************************************)
(* The deck operations of services/storageService.js, as the decks screen, *)
(* the import screen and the context call them.                            *)
(***************************************************************************)

\* The commander object handleCreateDeck builds from a collection entry.
CommanderRef(card) == [ id |-> card.id, name |-> card.name ]

\* The deckData handleCreateDeck passes: no commander and no cards, or a
\* commander that is also the deck's first card.
DeckDatas ==
    { [commander |-> NULL, cards |-> <<>>] } \cup
    { [commander |-> CommanderRef(c), cards |-> << NewDeckCard(c, 1) >>] : c \in Catalog }

\* The `updates` objects passed to updateDeck.
DeckUpdates == { [commander |-> NULL] } \cup { [commander |-> CommanderRef(c)] : c \in Catalog }

DeckIds == 0..MaxClock

\* storageService.createDeck(deckData)
createDeck(deckData, saveOk) ==
    LET newDeck == NewDeck(deckData, clock)
        decks   == Append(loadDecks, newDeck)
    IN
    /\ Counted
    /\ decksStore' = saveDecks(decks, saveOk)
    /\ last' = Call("createDeck", [deckData |-> deckData], decksStore, newDeck, saveOk, TRUE)
    /\ UNCHANGED <<store, collection, clock>>

\* storageService.createDeckFromDecklist(deckName, format, parsedCards)
createDeckFromDecklist(parsedCards, saveOk) ==
    LET deckData == [commander |-> NULL, cards |-> DecklistDeckCards(parsedCards)]
        newDeck  == NewDeck(deckData, clock)
        decks    == Append(loadDecks, newDeck)
    IN
    /\ Counted
    /\ decksStore' = saveDecks(decks, saveOk)
    /\ last' = Call("createDeckFromDecklist", [parsedCards |-> parsedCards],
                    decksStore, newDeck, saveOk, TRUE)
    /\ UNCHANGED <<store, collection, clock>>

\* storageService.updateDeck(deckId, updates)
updateDeck(deckId, updates, saveOk) ==
    LET index == DeckIndex(loadDecks, deckId) IN
    /\ Counted
    /\ IF index > 0
       THEN LET decks == [loadDecks EXCEPT
                            ![index] = [Spread(@, updates) EXCEPT !.updatedAt = clock]]
            IN  /\ decksStore' = saveDecks(decks, saveOk)
                /\ last' = Call("updateDeck", [deckId |-> deckId, updates |-> updates],
                                decksStore, decks[index], saveOk, TRUE)
       ELSE /\ decksStore' = decksStore
            /\ last' = Call("updateDeck", [deckId |-> deckId, updates |-> updates],
                            decksStore, NULL, TRUE, FALSE)
    /\ UNCHANGED <<store, collection, clock>>

\* storageService.deleteDeck(deckId)
deleteDeck(deckId, saveOk) ==
    LET filteredDecks == SelectSeq(loadDecks, LAMBDA d : d.id # deckId) IN
    /\ Counted
    /\ decksStore' = saveDecks(filteredDecks, saveOk)
    /\ last' = Call("deleteDeck", [deckId |-> deckId], decksStore, filteredDecks, saveOk, TRUE)
    /\ UNCHANGED <<store, collection, clock>>

\* The cards of the deck findIndex selects, << >> when there is none.
CardsOfDeck(decks, deckId) ==
    LET deckIndex == DeckIndex(decks, deckId) IN
    IF deckIndex > 0 THEN decks[deckIndex].cards ELSE <<>>

\* A faulty DeckCardsCall, writing the decks under the collection's key.
DeckCardsCall_CollectionKey(op, args, deckId, newCards, saveOk) ==
    LET deckIndex == DeckIndex(loadDecks, deckId) IN
    /\ Counted
    /\ IF deckIndex > 0
       THEN LET decks == [loadDecks EXCEPT
                            ![deckIndex].cards = newCards,
                            ![deckIndex].updatedAt = clock]
            IN  /\ store' = saveCollection(decks, saveOk)
                /\ last' = Call(op, args, decksStore, decks[deckIndex], saveOk, TRUE)
       ELSE /\ store' = store
            /\ last' = Call(op, args, decksStore, NULL, TRUE, FALSE)
    /\ UNCHANGED <<decksStore, collection, clock>>

\* A faulty DeckCardsCall, saving the deck without stamping updatedAt.
DeckCardsCall_NoStamp(op, args, deckId, newCards, saveOk) ==
    LET deckIndex == DeckIndex(loadDecks, deckId) IN
    /\ Counted
    /\ IF deckIndex > 0
       THEN LET decks == [loadDecks EXCEPT ![deckIndex].cards = newCards]
            IN  /\ decksStore' = saveDecks(decks, saveOk)
                /\ last' = Call(op, args, decksStore, decks[deckIndex], saveOk, TRUE)
       ELSE /\ decksStore' = decksStore
            /\ last' = Call(op, args, decksStore, NULL, TRUE, FALSE)
    /\ UNCHANGED <<store, collection, clock>>

\* The body shared by addCardToDeck, removeCardFromDeck and updateCardInDeck:
\* find the deck, replace its cards by newCards, stamp updatedAt, save, return
\* the deck; return null without saving when the deck is not found.
DeckCardsCall(op, args, deckId, newCards, saveOk) ==
    LET deckIndex == DeckIndex(loadDecks, deckId) IN
    /\ Counted
    /\ IF deckIndex > 0
       THEN LET decks == [loadDecks EXCEPT
                            ![deckIndex].cards = newCards,
                            ![deckIndex].updatedAt = clock]
            IN  /\ decksStore' = saveDecks(decks, saveOk)
                /\ last' = Call(op, args, decksStore, decks[deckIndex], saveOk, TRUE)
       ELSE /\ decksStore' = decksStore
            /\ last' = Call(op, args, decksStore, NULL, TRUE, FALSE)
    /\ UNCHANGED <<store, collection, clock>>

\* storageService.addCardToDeck(deckId, card, quantity)
addCardToDeck(deckId, card, quantity, saveOk) ==
    LET deckCards == CardsOfDeck(loadDecks, deckId) IN
    /\ DeckCardsCall("addCardToDeck",
                     [deckId |-> deckId, card |-> card, quantity |-> quantity],
                     deckId, addDeckCard(deckCards, card, quantity), saveOk)

\* storageService.removeCardFromDeck(deckId, cardId, quantity)
removeCardFromDeck(deckId, cardId, quantity, saveOk) ==
    DeckCardsCall("removeCardFromDeck",
                  [deckId |-> deckId, cardId |-> cardId, quantity |-> quantity],
                  deckId, removeDeckCard(CardsOfDeck(loadDecks, deckId), cardId, quantity),
                  saveOk)

\* storageService.updateCardInDeck(deckId, cardId, quantity)
updateCardInDeck(deckId, cardId, quantity, saveOk) ==
    DeckCardsCall("updateCardInDeck",
                  [deckId |-> deckId, cardId |-> cardId, quantity |-> quantity],
                  deckId, updateDeckCard(CardsOfDeck(loadDecks, deckId), cardId, quantity),
                  saveOk)

\* Time passes.
Tick ==
    /\ clock < MaxClock
    /\ clock' = clock + 1
    /\ UNCHANGED <<store, decksStore, collection, last, ncalls>>

-----------------------------------------------------------------------------
(***************************************************************************)
(* The reconciler: the collection, the decks and the context.              *)
(***************************************************************************)

StoreInit ==
    /\ store = <<>>
    /\ decksStore = <<>>
    /\ collection = <<>>
    /\ clock = 0
    /\ last = NoCall
    /\ ncalls = 0

FetchIdle ==
    /\ now = 0
    /\ lastRequestTime = 0
    /\ pc = <<>>
    /\ wake = <<>>
    /\ fired = <<>>

ResolveIdle ==
    /\ rpc = "idle"
    /\ decklistText = <<>>
    /\ lang = NoLang
    /\ provider = <<>>
    /\ cards = <<>>
    /\ results = <<>>
    /\ idx = 0
    /\ batch = <<>>
    /\ calls = <<>>
    /\ outcome = <<>>

UiIdle ==
    /\ tasks = <<>>
    /\ screen = <<>>
    /\ requests = <<>>

Init == StoreInit /\ FetchIdle /\ ResolveIdle /\ UiIdle

\* The lookup client and the resolution engine take no step in this specification.
OthersIdle == UNCHANGED <<fetchVars, resolveVars, uiVars>>

Next ==
    \/ /\ ncalls < MaxCalls
       /\ \E card \in Catalog, q \in Quantities, saveOk \in BOOLEAN :
             addCardToCollection(card, q, saveOk)
       /\ OthersIdle
    \/ /\ ncalls < MaxCalls
       /\ \E id \in CardIds, q \in Quantities, saveOk \in BOOLEAN :
             removeCardFromCollection(id, q, saveOk)
       /\ OthersIdle
    \/ /\ ncalls < MaxCalls
       /\ \E id \in CardIds, u \in Updates, saveOk \in BOOLEAN :
             updateCardInCollection(id, u, saveOk)
       /\ OthersIdle
    \/ /\ ncalls < MaxCalls
       /\ \E items \in ParsedLists, saveOk \in BOOLEAN :
             addCardsToCollection(items, saveOk)
       /\ OthersIdle
    \/ /\ ncalls < MaxCalls
       /\ \E items \in ParsedLists, saveOk \in BOOLEAN :
             addDecklistToCollection(items, saveOk)
       /\ OthersIdle
    \/ /\ ncalls < MaxCalls
       /\ \E data \in ImportFiles, saveOk \in BOOLEAN :
             importCollectionFromJSON(data, saveOk)
       /\ OthersIdle
    \/ /\ ncalls < MaxCalls
       /\ loadData
       /\ OthersIdle
    \/ /\ ncalls < MaxCalls
       /\ \E deckData \in DeckDatas, saveOk \in BOOLEAN : createDeck(deckData, saveOk)
       /\ OthersIdle
    \/ /\ ncalls < MaxCalls
       /\ \E items \in ParsedLists, saveOk \in BOOLEAN :
             createDeckFromDecklist(items, saveOk)
       /\ OthersIdle
    \/ /\ ncalls < MaxCalls
       /\ \E id \in DeckIds, u \in DeckUpdates, saveOk \in BOOLEAN :
             updateDeck(id, u, saveOk)
       /\ OthersIdle
    \/ /\ ncalls < MaxCalls
       /\ \E id \in DeckIds, saveOk \in BOOLEAN : deleteDeck(id, saveOk)
       /\ OthersIdle
    \/ /\ ncalls < MaxCalls
       /\ \E id \in DeckIds, card \in Catalog, q \in Quantities, saveOk \in BOOLEAN :
             addCardToDeck(id, card, q, saveOk)
       /\ OthersIdle
    \/ /\ ncalls < MaxCalls
       /\ \E id \in DeckIds, cardId \in CardIds, q \in Quantities, saveOk \in BOOLEAN :
             removeCardFromDeck(id, cardId, q, saveOk)
       /\ OthersIdle
    \/ /\ ncalls < MaxCalls
       /\ \E id \in DeckIds, cardId \in CardIds, q \in 0..MaxAdd, saveOk \in BOOLEAN :
             updateCardInDeck(id, cardId, q, saveOk)
       /\ OthersIdle
    \/ Tick /\ OthersIdle

Spec == Init /\ [][Next]_vars

-----------------------------------------------------------------------------
(***************************************************************************)
(* Properties of the reconciler.                                           *)
(***************************************************************************)

\* The indices of the entries of `list` keyed by `id` (id or scryfallId).
EntriesFor(list, id) ==
    { k \in 1..Len(list) : list[k].id = id \/ list[k].scryfallId = id }

\* The total quantity the found entries of a resolved decklist carry for `id`.
RECURSIVE FoundQuantity(_, _)
FoundQuantity(parsedCards, id) ==
    IF parsedCards = <<>> THEN 0
    ELSE LET item == Head(parsedCards) IN
         (IF item.found /\ item.cardData # NULL /\ item.cardData.id = id
          THEN item.quantity ELSE 0) + FoundQuantity(Tail(parsedCards), id)

\* `after` is `before` with the entry at index i deleted.
DeletedAt(before, after, i) ==
    /\ Len(after) = Len(before) - 1
    /\ \A k \in 1..Len(after) : after[k] = IF k < i THEN before[k] ELSE before[k + 1]

\* `after` is `before` with the quantity at index i set to q, all else equal.
QuantitySetAt(before, after, i, q) ==
    /\ Len(after) = Len(before)
    /\ after[i].quantity = q
    /\ \A k \in 1..Len(before) : k # i => after[k] = before[k]

\* The removal rule between the list a removal loaded and the list it built.
RemovalRule(before, after, cardId, r) ==
    LET i == IndexById(before, cardId) IN
    i > 0 =>
        IF r >= before[i].quantity
        THEN DeletedAt(before, after, i)
        ELSE QuantitySetAt(before, after, i, before[i].quantity - r)

\* C3: merge additivity.  When addDecklistToCollection or addCardToCollection
\* reconciles found entries for a catalog id into a collection holding at most
\* one entry for that id, the list it builds holds exactly one entry for the
\* id, whose quantity is the quantity held before (0 when absent) plus the
\* quantities of all the incoming entries for that id.
C3_MergeAdditivity ==
    /\ last.op = "addDecklistToCollection" =>
          \A id \in CardIds :
             (/\ FoundQuantity(last.args.parsedCards, id) > 0
              /\ Cardinality(EntriesFor(last.pre, id)) <= 1)
             => /\ Cardinality(EntriesFor(last.result, id)) = 1
                /\ QuantityOf(last.result, id) =
                      QuantityOf(last.pre, id) + FoundQuantity(last.args.parsedCards, id)
    /\ last.op = "addCardToCollection" =>
          LET id == last.args.card.id IN
          Cardinality(EntriesFor(last.pre, id)) <= 1
          => /\ Cardinality(EntriesFor(last.result, id)) = 1
             /\ QuantityOf(last.result, id) = QuantityOf(last.pre, id) + last.args.quantity

\* C4: removal rule.  removeCardFromCollection and removeCardFromDeck with
\* amount r on an entry of quantity q delete the entry when r >= q and
\* otherwise leave it with quantity q - r; every other entry is unchanged.
C4_RemovalRule ==
    /\ last.op = "removeCardFromCollection" =>
          /\ RemovalRule(last.pre, last.result, last.args.cardId, last.args.quantity)
          /\ last.saveOk => store = last.result
    /\ (last.op = "removeCardFromDeck" /\ last.result # NULL) =>
          /\ RemovalRule(CardsOfDeck(last.pre, last.args.deckId), last.result.cards,
                         last.args.cardId, last.args.quantity)
          /\ last.saveOk =>
                CardsOfDeck(decksStore, last.args.deckId) = last.result.cards

\* C4 witness: removeCardFromCollection has taken less than the held
\* quantity from one entry of a persisted collection of two entries.
C4_Removed ==
    /\ last.op = "removeCardFromCollection"
    /\ Len(last.pre) = 2
    /\ IndexById(last.pre, last.args.cardId) > 0
    /\ last.args.quantity < last.pre[IndexById(last.pre, last.args.cardId)].quantity
    /\ last.saveOk

C6_QuantityAtLeastOne ==
    /\ \A k \in 1..Len(store) : store[k].quantity >= 1
    /\ \A d \in 1..Len(decksStore) :
          \A k \in 1..Len(decksStore[d].cards) : decksStore[d].cards[k].quantity >= 1

\* C10: when the write fails during addCardToCollection,
\* removeCardFromCollection, addDecklistToCollection, createDeck, addCardToDeck
\* or importCollectionFromJSON, the caller is told so and the context's
\* collection is the one it held before the call.
C10_WriteFailureReported ==
    (/\ last.op \in {"addCardToCollection", "removeCardFromCollection",
                     "addDecklistToCollection", "createDeck", "addCardToDeck",
                     "importCollectionFromJSON"}
     /\ ~last.saveOk)
    => /\ ~last.reported
       /\ collection = last.preCtx

-----------------------------------------------------------------------------
(***************************************************************************)
(* The decklist tokenizer (parseDeckList, first half).  A text is a        *)
(* sequence of one-character strings.                                      *)
(***************************************************************************)

\* The characters String.prototype.trim() strips and \s matches.
WhiteSpace == {" ", "\t", "\r", "\n"}
\* The characters `.` does not match.
LineTerminators == {"\n", "\r"}
Digits == {"0", "1", "2", "3", "4", "5", "6", "7", "8", "9"}

DigitValue(c) ==
    CASE c = "0" -> 0 [] c = "1" -> 1 [] c = "2" -> 2 [] c = "3" -> 3 [] c = "4" -> 4
      [] c = "5" -> 5 [] c = "6" -> 6 [] c = "7" -> 7 [] c = "8" -> 8 [] c = "9" -> 9

\* parseInt of a string of decimal digits.
RECURSIVE ParseInt(_)
ParseInt(ds) ==
    IF ds = <<>> THEN 0
    ELSE 10 * ParseInt(SubSeq(ds, 1, Len(ds) - 1)) + DigitValue(ds[Len(ds)])

\* String.prototype.toLowerCase on the letters of the model.
LowerChar(c) ==
    CASE c = "A" -> "a" [] c = "B" -> "b" [] c = "X" -> "x" [] OTHER -> c

toLowerCase(str) == [ k \in 1..Len(str) |-> LowerChar(str[k]) ]

\* The number of consecutive characters of S in str from position `from` on.
RECURSIVE Run(_, _, _)
Run(str, from, S) ==
    IF from > Len(str) \/ str[from] \notin S THEN 0 ELSE 1 + Run(str, from + 1, S)

\* The number of consecutive characters of S at the end of str.
RECURSIVE RunBack(_, _)
RunBack(str, S) ==
    IF str = <<>> \/ str[Len(str)] \notin S THEN 0
    ELSE 1 + RunBack(SubSeq(str, 1, Len(str) - 1), S)

\* String.prototype.trim()
trim(str) ==
    LET lead == Run(str, 1, WhiteSpace) IN
    IF lead = Len(str) THEN <<>>
    ELSE SubSeq(str, lead + 1, Len(str) - RunBack(str, WhiteSpace))

\* String.prototype.startsWith
startsWith(str, prefix) ==
    Len(str) >= Len(prefix) /\ SubSeq(str, 1, Len(prefix)) = prefix

\* String.prototype.indexOf(c, from), 1-based; 0 when there is none.
RECURSIVE indexOf(_, _, _)
indexOf(str, c, from) ==
    IF from > Len(str) THEN 0
    ELSE IF str[from] = c THEN from ELSE indexOf(str, c, from + 1)

\* decklistText.split('\n')
RECURSIVE split(_)
split(text) ==
    LET i == indexOf(text, "\n", 1) IN
    IF i = 0 THEN << text >>
    ELSE << SubSeq(text, 1, i - 1) >> \o split(SubSeq(text, i + 1, Len(text)))

\* A faulty Matches, in which the pattern has no x marker.
Matches_NoMarker(line) ==
    { m \in (0..Len(line)) \X {0} \X (0..Len(line)) :
        /\ m[1] <= Run(line, 1, Digits)
        /\ m[3] <= Run(line, m[1] + 1, WhiteSpace)
        /\ m[1] + m[3] < Len(line)
        /\ \A k \in (m[1] + m[3] + 1)..Len(line) : line[k] \notin LineTerminators }

\* The ways /^(\d+)?x?\s*(.+)$/i can match `line`: d digits in group 1
\* (0: the group did not take part), x = 1 when the marker is consumed, w
\* whitespace characters skipped; group 2 is the rest, which must be non-empty
\* and free of line terminators.
Matches(line) ==
    { m \in (0..Len(line)) \X (0..1) \X (0..Len(line)) :
        LET d == m[1]
            x == m[2]
            w == m[3]
        IN  /\ d <= Run(line, 1, Digits)
            /\ x = 1 => (d + 1 <= Len(line) /\ line[d + 1] \in {"x", "X"})
            /\ w <= Run(line, d + x + 1, WhiteSpace)
            /\ d + x + w < Len(line)
            /\ \A k \in (d + x + w + 1)..Len(line) : line[k] \notin LineTerminators }

\* The backtracking order: every quantifier is greedy, so the match found is
\* the one with the most digits, then with the marker, then with the most
\* whitespace skipped.
Preferred(m, n) ==
    \/ m[1] > n[1]
    \/ m[1] = n[1] /\ m[2] > n[2]
    \/ m[1] = n[1] /\ m[2] = n[2] /\ m[3] >= n[3]

\* line.match(...): the preferred match. Defined when Matches(line) # {}.
match(line) ==
    CHOOSE m \in Matches(line) : \A n \in Matches(line) : Preferred(m, n)

\* A faulty LineCards, taking the parsed integer as the quantity even when it is 0.
LineCards_NoDefault(line) ==
    IF Matches(line) = {} THEN << >>
    ELSE LET m        == match(line)
             quantity == IF m[1] = 0 THEN 1 ELSE ParseInt(SubSeq(line, 1, m[1]))
             cardName == trim(SubSeq(line, m[1] + m[2] + m[3] + 1, Len(line)))
         IN  IF \/ cardName = << >>
                \/ startsWith(cardName, <<"/", "/">>)
                \/ startsWith(cardName, <<"#">>)
             THEN << >>
             ELSE << [name |-> cardName, quantity |-> quantity] >>

\* The entries one line pushes onto `cards`: none or one.
LineCards(line) ==
    IF Matches(line) = {} THEN << >>
    ELSE LET m        == match(line)
             parsed   == IF m[1] = 0 THEN 0 ELSE ParseInt(SubSeq(line, 1, m[1]))
             quantity == IF parsed = 0 THEN 1 ELSE parsed
             cardName == trim(SubSeq(line, m[1] + m[2] + m[3] + 1, Len(line)))
         IN  IF \/ cardName = << >>
                \/ startsWith(cardName, <<"/", "/">>)
                \/ startsWith(cardName, <<"#">>)
             THEN << >>
             ELSE << [name |-> cardName, quantity |-> quantity] >>

\* The loop over lines: the lines that are blank after trimming are filtered
\* out first, the others contribute their entries in order.
RECURSIVE LinesCards(_)
LinesCards(lines) ==
    IF lines = << >> THEN << >>
    ELSE (IF trim(Head(lines)) = << >> THEN << >> ELSE LineCards(Head(lines)))
         \o LinesCards(Tail(lines))

\* parseDeckList's `cards` for a decklist text.
Tokenize(text) == LinesCards(split(text))

-----------------------------------------------------------------------------
(***************************************************************************)
(* The lookup provider as the resolution engine sees it: what a call       *)
(* through rateLimitedFetch returns (ok, with the response's `data` array) *)
(* or that it threw (a transport error or a non-2xx status).               *)
(***************************************************************************)

MaxText == 4     \* decklist texts have 1..MaxText characters
MaxData == 2     \* a batch response carries 0..MaxData records

Threw == [ ok |-> FALSE, data |-> << >> ]
Returned(data) == [ ok |-> TRUE, data |-> data ]

\* Responses of POST /cards/collection.
BatchResponses ==
    {Threw} \cup { Returned(d) : d \in UNION { [1..k -> Catalog] : k \in 0..MaxData } }

\* Responses of GET /cards/search: an error, an empty list, or one record.
SearchResponses ==
    {Threw, Returned(<< >>)} \cup { Returned(<< c >>) : c \in Catalog }

\* Responses of GET /cards/named: an error (404 included) or the record.
NamedResponses == {Threw} \cup { Returned(c) : c \in Catalog }

\* What an async function hands its caller: a value, or an exception.
Value(v) == [ threw |-> FALSE, value |-> v ]
Exception == [ threw |-> TRUE, value |-> NULL ]

\* searchCardInLanguage / searchCardInAnyLanguage on the response to their query.
searchCard(response) ==
    IF response.ok /\ Len(response.data) > 0 THEN Value(response.data[1]) ELSE Exception

\* A lookup as recorded in `calls`.
Lookup(fn, arg, l) == [ fn |-> fn, arg |-> arg, lang |-> l ]

-----------------------------------------------------------------------------
(***************************************************************************)
(* parseDeckList(decklistText, lang): bulk resolution.                     *)
(***************************************************************************)

\* const identifiers = cards.map(c => ({ name: c.name }))
identifiers(cs) == [ k \in 1..Len(cs) |-> cs[k].name ]

\* cardData.find(d => d.name.toLowerCase() === card.name.toLowerCase())
find(cardData, name) ==
    LET i == FirstIndex({ k \in 1..Len(cardData) :
                            toLowerCase(cardData[k].name) = toLowerCase(name) })
    IN  IF i > 0 THEN cardData[i] ELSE NULL

\* A faulty MatchAll, keeping only the cards the batch matched.
RECURSIVE MatchAll_FoundOnly(_, _)
MatchAll_FoundOnly(cs, cardData) ==
    IF cs = << >> THEN << >>
    ELSE LET data == find(cardData, Head(cs).name) IN
         (IF data = NULL THEN << >>
          ELSE << [ name |-> Head(cs).name, quantity |-> Head(cs).quantity,
                    cardData |-> data, found |-> TRUE ] >>)
         \o MatchAll_FoundOnly(Tail(cs), cardData)

\* const results = cards.map(card => ({...card, cardData: data || null, found: !!data}))
MatchAll(cs, cardData) ==
    [ k \in 1..Len(cs) |->
        LET data == find(cardData, cs[k].name) IN
        [ name |-> cs[k].name, quantity |-> cs[k].quantity,
          cardData |-> data, found |-> data # NULL ] ]

\* The catch branch: cards.map(card => ({...card, cardData: null, found: false}))
NotFoundAll(cs) ==
    [ k \in 1..Len(cs) |->
        [ name |-> cs[k].name, quantity |-> cs[k].quantity,
          cardData |-> NULL, found |-> FALSE ] ]

\* A faulty FallbackHit, storing the record without setting `found`.
FallbackHit_NoFlag(result, foundCard) == [ result EXCEPT !.cardData = foundCard ]

\* results[i].cardData = foundCard; results[i].found = true
FallbackHit(result, foundCard) ==
    [ result EXCEPT !.cardData = foundCard, !.found = TRUE ]

\* const searchLang = lang || 'any'
searchLang == IF lang = NoLang THEN "any" ELSE lang

\* The decklist is split and tokenized (synchronous, up to the first await).
Tokenise ==
    /\ rpc = "called"
    /\ cards' = Tokenize(decklistText)
    /\ rpc' = "batch"
    /\ UNCHANGED <<decklistText, lang, provider, results, idx, batch, calls, outcome>>

\* The responses getCardCollection can get: it issues no call for an empty list.
BatchOutcomes == IF cards = << >> THEN { Returned(<< >>) } ELSE BatchResponses

BatchCalls ==
    IF cards = << >> THEN calls
    ELSE Append(calls, Lookup("getCardCollection", identifiers(cards), NoLang))

\* getCardCollection returned: the cards are matched against its records.
BatchReturned ==
    /\ rpc = "batch"
    /\ \E r \in BatchOutcomes :
          /\ r.ok
          /\ batch' = r
          /\ results' = MatchAll(cards, r.data)
    /\ calls' = BatchCalls
    /\ idx' = 1
    /\ rpc' = "fallback"
    /\ UNCHANGED <<decklistText, lang, provider, cards, outcome>>

\* getCardCollection threw: the outer catch returns every card as not found.
BatchThrew ==
    /\ rpc = "batch"
    /\ Threw \in BatchOutcomes
    /\ batch' = Threw
    /\ calls' = BatchCalls
    /\ results' = NotFoundAll(cards)
    /\ outcome' = NotFoundAll(cards)
    /\ rpc' = "done"
    /\ UNCHANGED <<decklistText, lang, provider, cards, idx>>

\* One iteration of the fallback loop on a result that is already found.
FallbackSkip ==
    /\ rpc = "fallback"
    /\ idx <= Len(results)
    /\ results[idx].found
    /\ idx' = idx + 1
    /\ UNCHANGED <<rpc, decklistText, lang, provider, cards, results, batch, calls, outcome>>

\* One iteration of the fallback loop on a result that is not found: the
\* search in searchLang is awaited; a hit fills the result, a miss or an
\* error (swallowed by the inner catch) leaves it.
FallbackSearch ==
    /\ rpc = "fallback"
    /\ idx <= Len(results)
    /\ ~results[idx].found
    /\ \E response \in SearchResponses :
          LET foundCard == searchCard(response) IN
          results' = IF foundCard.threw THEN results
                     ELSE [results EXCEPT ![idx] = FallbackHit(@, foundCard.value)]
    /\ calls' = Append(calls,
                       Lookup(IF searchLang = "any" THEN "searchCardInAnyLanguage"
                                                    ELSE "searchCardInLanguage",
                              results[idx].name, searchLang))
    /\ idx' = idx + 1
    /\ UNCHANGED <<rpc, decklistText, lang, provider, cards, batch, outcome>>

\* return results
ReturnResults ==
    /\ rpc = "fallback"
    /\ idx > Len(results)
    /\ outcome' = results
    /\ rpc' = "done"
    /\ UNCHANGED <<decklistText, lang, provider, cards, results, idx, batch, calls>>

ResolveAlphabet == {"2", "x", " ", "a", "b", "#", "\n"}
DecklistTexts == UNION { [1..k -> ResolveAlphabet] : k \in 1..MaxText }
Langs == {NoLang, "any", "fr"}

InitResolve ==
    /\ UiIdle
    /\ StoreInit
    /\ FetchIdle
    /\ rpc = "called"
    /\ decklistText \in DecklistTexts
    /\ lang \in Langs
    /\ provider = << >>
    /\ cards = << >>
    /\ results = << >>
    /\ idx = 0
    /\ batch = << >>
    /\ calls = << >>
    /\ outcome = << >>

NextResolve ==
    \/ Tokenise /\ UNCHANGED <<storeVars, fetchVars, uiVars>>
    \/ BatchReturned /\ UNCHANGED <<storeVars, fetchVars, uiVars>>
    \/ BatchThrew /\ UNCHANGED <<storeVars, fetchVars, uiVars>>
    \/ FallbackSkip /\ UNCHANGED <<storeVars, fetchVars, uiVars>>
    \/ FallbackSearch /\ UNCHANGED <<storeVars, fetchVars, uiVars>>
    \/ ReturnResults /\ UNCHANGED <<storeVars, fetchVars, uiVars>>

SpecResolve == InitResolve /\ [][NextResolve]_vars

-----------------------------------------------------------------------------
(***************************************************************************)
(* Properties of bulk resolution.                                          *)
(***************************************************************************)

\* The (name, quantity) pairs of a list of results.
Entries(rs) == [ k \in 1..Len(rs) |-> [name |-> rs[k].name, quantity |-> rs[k].quantity] ]

\* The indices of `cards` the batch lookup left unmatched, in input order:
\* all of them when the batch call threw.
RECURSIVE Unmatched(_)
Unmatched(k) ==
    IF k > Len(cards) THEN << >>
    ELSE (IF batch.ok /\ find(batch.data, cards[k].name) # NULL THEN << >> ELSE << k >>)
         \o Unmatched(k + 1)

\* The per-item fallback lookups issued so far, in order.
FallbackCalls == SelectSeq(calls, LAMBDA c : c.fn # "getCardCollection")

\* C1: whatever the lookups answer, parseDeckList returns exactly one result
\* per line the tokenizer keeps, in the order of those lines, each with the
\* quantity and the name tokenized from its line (equal names on different
\* lines give separate results).
C1_OneResultPerEntry ==
    rpc = "done" => Entries(outcome) = Tokenize(decklistText)

\* C1 witness: a decklist of two lines with the same name has been resolved
\* by a successful batch call, and the fallback found only one of the two.
C1_DuplicateLinesResolved ==
    /\ rpc = "done"
    /\ batch.ok
    /\ Len(outcome) = 2
    /\ outcome[1].name = outcome[2].name
    /\ outcome[1].found # outcome[2].found

\* C2: in every result of parseDeckList, at every suspension point and in
\* the returned list, cardData is null exactly when found is false.
C2_NullIffNotFound ==
    /\ \A k \in 1..Len(results) : (results[k].cardData = NULL) <=> ~results[k].found
    /\ \A k \in 1..Len(outcome) : (outcome[k].cardData = NULL) <=> ~outcome[k].found

\* C2 witness: the returned list holds a result filled by the fallback lookup
\* and a result that stayed not found.
C2_FallbackFilledOne ==
    /\ rpc = "done"
    /\ Len(outcome) = 2
    /\ Unmatched(1) = << 1, 2 >>
    /\ \E k, j \in 1..2 : outcome[k].found /\ ~outcome[j].found

\* C9: when parseDeckList returns, every entry the batch lookup left
\* unmatched (all of them when the batch call threw) has been attempted
\* through the per-item fallback, in searchLang, one at a time in input order.
C9_FallbackForEveryUnmatched ==
    rpc = "done" =>
        /\ Len(FallbackCalls) = Len(Unmatched(1))
        /\ \A k \in 1..Len(FallbackCalls) :
              /\ FallbackCalls[k].arg = cards[Unmatched(1)[k]].name
              /\ FallbackCalls[k].lang = searchLang

-----------------------------------------------------------------------------
(***************************************************************************)
(* getCardByFuzzyName(name, lang): single-entry resolution.  `provider`    *)
(* fixes, for the name asked, what each endpoint answers: the fuzzy named  *)
(* lookup, and the search restricted to each language tag ("any" is the    *)
(* tag of the search across all languages).                                *)
(***************************************************************************)

SearchTags == {"fr", "any"}
FuzzyLangs == {NoLang, "en", "fr", "any"}

Providers ==
    [ named : NamedResponses, search : [SearchTags -> SearchResponses] ]

\* GET /cards/named?fuzzy=name as rateLimitedFetch hands it on.
namedCard(response) == IF response.ok THEN Value(response.data) ELSE Exception

\* The first tier: the fuzzy lookup is awaited; its record is returned, or
\* its failure is caught and the next tier is chosen from lang.
FuzzyLookup ==
    /\ rpc = "called"
    /\ calls' = Append(calls, Lookup("named", "fuzzy", NoLang))
    /\ LET data == namedCard(provider.named) IN
       IF ~data.threw
       THEN /\ outcome' = data
            /\ rpc' = "done"
       ELSE /\ outcome' = outcome
            /\ rpc' = IF lang # NoLang /\ lang # "en" THEN "inLanguage" ELSE "anyLanguage"
    /\ UNCHANGED <<decklistText, lang, provider, cards, results, idx, batch>>

\* return searchCardInLanguage(name, lang)
SearchInLanguage ==
    /\ rpc = "inLanguage"
    /\ calls' = Append(calls, Lookup("searchCardInLanguage", "search", lang))
    /\ outcome' = searchCard(provider.search[lang])
    /\ rpc' = "done"
    /\ UNCHANGED <<decklistText, lang, provider, cards, results, idx, batch>>

\* return searchCardInAnyLanguage(name)
SearchInAnyLanguage ==
    /\ rpc = "anyLanguage"
    /\ calls' = Append(calls, Lookup("searchCardInAnyLanguage", "search", "any"))
    /\ outcome' = searchCard(provider.search["any"])
    /\ rpc' = "done"
    /\ UNCHANGED <<decklistText, lang, provider, cards, results, idx, batch>>

InitFuzzy ==
    /\ UiIdle
    /\ StoreInit
    /\ FetchIdle
    /\ rpc = "called"
    /\ decklistText = << >>
    /\ lang \in FuzzyLangs
    /\ provider \in Providers
    /\ cards = << >>
    /\ results = << >>
    /\ idx = 0
    /\ batch = << >>
    /\ calls = << >>
    /\ outcome = << >>

NextFuzzy ==
    \/ FuzzyLookup /\ UNCHANGED <<storeVars, fetchVars, uiVars>>
    \/ SearchInLanguage /\ UNCHANGED <<storeVars, fetchVars, uiVars>>
    \/ SearchInAnyLanguage /\ UNCHANGED <<storeVars, fetchVars, uiVars>>

SpecFuzzy == InitFuzzy /\ [][NextFuzzy]_vars

\* C8: whenever the fuzzy lookup fails and the any-language search would
\* succeed, getCardByFuzzyName returns the any-language record, whatever the
\* language preference and even when the language-scoped search was tried
\* and failed in between; each tier is tried only after the one before failed.
C8_AnyLanguageIsLastTier ==
    (/\ rpc = "done"
     /\ ~provider.named.ok
     /\ ~searchCard(provider.search["any"]).threw)
    => /\ outcome = searchCard(provider.search["any"])
       /\ calls[1].fn = "named"
       /\ calls[Len(calls)].fn = "searchCardInAnyLanguage"
            \/ (calls[Len(calls)].fn = "searchCardInLanguage" /\ lang = "any")

-----------------------------------------------------------------------------
(***************************************************************************)
(* rateLimitedFetch(url, options): the lookup client's throttle.  The      *)
(* callers are the features that issue lookups on their own: the search    *)
(* bar's debounced autocomplete and the search itself.  A caller runs      *)
(* without interruption between two awaits.                                *)
(***************************************************************************)

MinSpacing == 100   \* the spacing rateLimitedFetch aims at, in milliseconds

Quantum    == 50    \* the clock advances in steps of Quantum milliseconds
MaxTicks   == 4     \* the clock advances at most MaxTicks times
MaxFetches == 3     \* at most MaxFetches requests are issued in a run

Callers == {"autocomplete", "search"}

\* Date.now() when the first request is made: far beyond MinSpacing, so the
\* first request never waits (lastRequestTime starts at 0).
StartTime == MinSpacing

\* The requests that have entered rateLimitedFetch so far.
Entered == Len(fired) + Cardinality({ c \in Callers : pc[c] = "delay" })

\* A faulty Fire, calling fetch without recording the time of the request.
Fire_NoStamp(c) ==
    /\ lastRequestTime' = lastRequestTime
    /\ fired' = Append(fired, now)
    /\ pc' = [pc EXCEPT ![c] = "fetch"]

\* fetch(url, ...) is called at the current time.
Fire(c) ==
    /\ lastRequestTime' = now
    /\ fired' = Append(fired, now)
    /\ pc' = [pc EXCEPT ![c] = "fetch"]

\* A caller enters rateLimitedFetch and runs to its first await: the delay
\* when the last request is less than MinSpacing old, the fetch otherwise.
Enter(c) ==
    /\ pc[c] = "idle"
    /\ Entered < MaxFetches
    /\ LET timeSinceLastRequest == now - lastRequestTime IN
       IF timeSinceLastRequest < MinSpacing
       THEN /\ pc' = [pc EXCEPT ![c] = "delay"]
            /\ wake' = [wake EXCEPT ![c] = now + (MinSpacing - timeSinceLastRequest)]
            /\ UNCHANGED <<lastRequestTime, fired>>
       ELSE /\ Fire(c)
            /\ UNCHANGED wake
    /\ UNCHANGED now

\* The delay's timer has run out (setTimeout fires at its due time or
\* later): the caller resumes, stamps lastRequestTime and calls fetch.
Resume(c) ==
    /\ pc[c] = "delay"
    /\ now >= wake[c]
    /\ Fire(c)
    /\ UNCHANGED <<now, wake>>

\* The response arrives and rateLimitedFetch returns or throws.
Respond(c) ==
    /\ pc[c] = "fetch"
    /\ pc' = [pc EXCEPT ![c] = "idle"]
    /\ UNCHANGED <<now, lastRequestTime, wake, fired>>

\* Time passes.
Advance ==
    /\ now < StartTime + MaxTicks * Quantum
    /\ now' = now + Quantum
    /\ UNCHANGED <<lastRequestTime, pc, wake, fired>>

InitFetch ==
    /\ UiIdle
    /\ StoreInit
    /\ ResolveIdle
    /\ now = StartTime
    /\ lastRequestTime = 0
    /\ pc = [c \in Callers |-> "idle"]
    /\ wake = [c \in Callers |-> 0]
    /\ fired = << >>

NextFetch ==
    \/ \E c \in Callers : Enter(c) /\ UNCHANGED <<storeVars, resolveVars, uiVars>>
    \/ \E c \in Callers : Resume(c) /\ UNCHANGED <<storeVars, resolveVars, uiVars>>
    \/ \E c \in Callers : Respond(c) /\ UNCHANGED <<storeVars, resolveVars, uiVars>>
    \/ Advance /\ UNCHANGED <<storeVars, resolveVars, uiVars>>

SpecFetch == InitFetch /\ [][NextFetch]_vars

\* C7: whatever the interleaving of the callers, any two calls of fetch are
\* at least MinSpacing milliseconds apart.
C7_GlobalThrottle ==
    \A i, j \in 1..Len(fired) : i < j => fired[j] - fired[i] >= MinSpacing

-----------------------------------------------------------------------------
(***************************************************************************)
(* The tokenizer on its own: parseDeckList up to its first await, on every *)
(* text of a wider alphabet (digits, both markers, a carriage return).     *)
(***************************************************************************)

MaxLine     == 4    \* tokenizer texts have 0..MaxLine characters
MaxQuantity == 12   \* quantity prefixes written out: 1..MaxQuantity

TokenAlphabet == {"0", "1", "2", "x", "X", " ", "a", "#", "/", "\r", "\n"}
TokenTexts == UNION { [1..k -> TokenAlphabet] : k \in 0..MaxLine }

InitTokenize ==
    /\ UiIdle
    /\ StoreInit
    /\ FetchIdle
    /\ rpc = "called"
    /\ decklistText \in TokenTexts
    /\ lang = NoLang
    /\ provider = << >>
    /\ cards = << >>
    /\ results = << >>
    /\ idx = 0
    /\ batch = << >>
    /\ calls = << >>
    /\ outcome = << >>

NextTokenize == Tokenise /\ UNCHANGED <<storeVars, fetchVars, uiVars>>

SpecTokenize == InitTokenize /\ [][NextTokenize]_vars

\* The text is one line and has been tokenized.
OneLineTokenized == rpc = "batch" /\ indexOf(decklistText, "\n", 1) = 0

\* The decimal numeral of a natural number.
DigitChar(d) ==
    CASE d = 0 -> "0" [] d = 1 -> "1" [] d = 2 -> "2" [] d = 3 -> "3" [] d = 4 -> "4"
      [] d = 5 -> "5" [] d = 6 -> "6" [] d = 7 -> "7" [] d = 8 -> "8" [] d = 9 -> "9"

RECURSIVE Numeral(_)
Numeral(n) ==
    IF n < 10 THEN << DigitChar(n) >> ELSE Append(Numeral(n \div 10), DigitChar(n % 10))

\* str begins with a comment marker.
IsComment(str) == startsWith(str, <<"/", "/">>) \/ startsWith(str, <<"#">>)

\* str without its leading whitespace.
trimStart(str) == SubSeq(str, Run(str, 1, WhiteSpace) + 1, Len(str))

\* str without a leading quantity prefix: an integer, an x or X directly
\* after it, and the whitespace that follows.
StripQuantity(str) ==
    LET d == Run(str, 1, Digits)
        x == IF d > 0 /\ d < Len(str) /\ str[d + 1] \in {"x", "X"} THEN 1 ELSE 0
    IN  IF d = 0 THEN str
        ELSE SubSeq(str, d + x + Run(str, d + x + 1, WhiteSpace) + 1, Len(str))

\* C11: a line that is not a comment and does not start with a digit gives
\* one entry of quantity 1 whose name is the whole line, trimmed; an x or X
\* that does not follow a leading integer stays in the name.
C11_NoLeadingInteger ==
    (/\ OneLineTokenized
     /\ trim(decklistText) # << >>
     /\ ~IsComment(trim(decklistText))
     /\ decklistText[1] \notin Digits)
    => cards = << [name |-> trim(decklistText), quantity |-> 1] >>

\* C12: for an integer n >= 1 and a non-empty name s that is no comment, the
\* lines "n s", "nx s", "nX s" and "nxs" each give exactly one entry, of
\* quantity n and name s.
C12_QuantityPrefix ==
    OneLineTokenized =>
        \A n \in 1..MaxQuantity :
           \A sep \in { <<" ">>, <<"x", " ">>, <<"X", " ">>, <<"x">> } :
              LET prefix == Numeral(n) \o sep
                  s      == SubSeq(decklistText, Len(prefix) + 1, Len(decklistText))
              IN  (/\ startsWith(decklistText, prefix)
                   /\ s # << >>
                   /\ s = trim(s)
                   /\ \A k \in 1..Len(s) : s[k] \notin LineTerminators
                   /\ ~IsComment(s))
                  => cards = << [name |-> s, quantity |-> n] >>

\* C12 witness: the line "12xa" (the form nxs with n = 12) has been tokenized.
C12_TwoDigitsMarkerName ==
    /\ rpc = "batch"
    /\ decklistText = Numeral(12) \o <<"x", "a">>

\* C13: a line gives no entry when it is empty after trimming or when its
\* content, after the leading whitespace and a quantity prefix, begins with
\* // or #; every other line with a name left gives exactly one entry; no
\* line gives more than one.
C13_Filtering ==
    /\ rpc = "batch" => Len(cards) <= Len(split(decklistText))
    /\ OneLineTokenized =>
          LET content == StripQuantity(trimStart(decklistText)) IN
          /\ (trim(decklistText) = << >> \/ IsComment(content)) => cards = << >>
          /\ (trim(content) # << >> /\ ~IsComment(content)) => Len(cards) = 1

\* C14: a line that holds only an integer and an optional x or X (its name
\* portion is empty) gives no entry.
C14_EmptyNameDiscarded ==
    (/\ OneLineTokenized
     /\ Run(decklistText, 1, Digits) > 0
     /\ trim(StripQuantity(decklistText)) = << >>)
    => cards = << >>

\* C15: every entry the tokenizer produces has a quantity of at least 1,
\* also when the line's leading integer is 0.
C15_QuantityAtLeastOne ==
    \A k \in 1..Len(cards) : cards[k].quantity >= 1

\* C15 witness: the line "0 a" has been tokenized into one entry.
C15_ZeroPrefixTokenized ==
    /\ rpc = "batch"
    /\ decklistText = <<"0", " ", "a">>
    /\ Len(cards) = 1

-----------------------------------------------------------------------------
(***************************************************************************)
(* Properties of identity matching and of decks built from a decklist.     *)
(***************************************************************************)

\* C16: collection identity is by id or scryfallId only.  When
\* addCardToCollection, addCardsToCollection or addDecklistToCollection
\* merges a found entry whose id matches no entry of the list it merges
\* into, the list it builds holds an entry with that id, also when an
\* existing entry has the same name.
C16_IdentityByIdOnly ==
    /\ last.op = "addCardToCollection" =>
          (EntriesFor(last.pre, last.args.card.id) = {}
           => EntriesFor(last.result, last.args.card.id) # {})
    /\ last.op = "addCardsToCollection" =>
          \A k \in 1..Len(last.args.cards) :
             EntriesFor(last.preCtx, last.args.cards[k].card.id) = {}
             => EntriesFor(last.result, last.args.cards[k].card.id) # {}
    /\ last.op = "addDecklistToCollection" =>
          \A id \in CardIds :
             (FoundQuantity(last.args.parsedCards, id) > 0 /\ EntriesFor(last.pre, id) = {})
             => EntriesFor(last.result, id) # {}

\* C17: in every persisted deck no two cards share an id.
C17_DeckCardsUniqueById ==
    \A d \in 1..Len(decksStore) :
       \A k, j \in 1..Len(decksStore[d].cards) :
          k # j => decksStore[d].cards[k].id # decksStore[d].cards[j].id

\* The found entries of a resolved decklist, in input order.
FoundEntries(parsedCards) ==
    SelectSeq(parsedCards, LAMBDA item : item.found /\ item.cardData # NULL)

\* C18: the deck createDeckFromDecklist builds and persists holds exactly
\* the found entries of the resolved decklist, in input order, each with its
\* record's id and name and its tokenized quantity; an entry that is not
\* found never appears.
C18_DeckHoldsFoundEntries ==
    last.op = "createDeckFromDecklist" =>
        LET found == FoundEntries(last.args.parsedCards)
            deck  == last.result
        IN  /\ Len(deck.cards) = Len(found)
            /\ \A k \in 1..Len(found) :
                  /\ deck.cards[k].id = found[k].cardData.id
                  /\ deck.cards[k].name = found[k].cardData.name
                  /\ deck.cards[k].quantity = found[k].quantity
            /\ last.saveOk => decksStore = Append(last.pre, deck)

\* C18 witness: a deck has been created and persisted from a decklist whose
\* first entry is not found and whose second is found with quantity 2.
C18_DeckFromMixedDecklist ==
    /\ last.op = "createDeckFromDecklist"
    /\ last.saveOk
    /\ Len(last.args.parsedCards) = 2
    /\ ~last.args.parsedCards[1].found
    /\ last.args.parsedCards[2].found
    /\ last.args.parsedCards[2].quantity = 2
    /\ Len(decksStore) = 1

-----------------------------------------------------------------------------
(***************************************************************************)
(* exportCollectionToDecklist, and the tokenizer applied to its text.      *)
(***************************************************************************)

MaxExport == 3     \* exported collections hold 0..MaxExport entries

\* The names of the exported entries: card names, that is non-empty, one
\* line, without surrounding whitespace and not starting with a comment
\* marker (a marker inside the name, as in "Fire // Ice", is allowed).
ExportNames ==
    { <<"a">>, <<"b">>, <<"x">>, <<"2">>, <<"x", "a">>, <<"2", "x">>,
      <<"a", "b">>, <<"a", " ", "b">>, <<"a", "#">> }

ExportQuantities == {1, MaxQuantity}

\* The collation rank of a character: whitespace, punctuation, digits, letters.
CharRank(c) ==
    CASE c = " " -> 0 [] c = "#" -> 1 [] c = "2" -> 2
      [] c = "a" -> 3 [] c = "b" -> 4 [] c = "x" -> 5

\* a.localeCompare(b) < 0
RECURSIVE localeLess(_, _)
localeLess(a, b) ==
    IF b = << >> THEN FALSE
    ELSE IF a = << >> THEN TRUE
    ELSE IF Head(a) # Head(b) THEN CharRank(Head(a)) < CharRank(Head(b))
    ELSE localeLess(Tail(a), Tail(b))

\* [...collection].sort((a, b) => a.name.localeCompare(b.name)): a stable sort.
RECURSIVE SortByName(_)
SortByName(coll) ==
    IF coll = << >> THEN << >>
    ELSE LET rest == SortByName(SubSeq(coll, 1, Len(coll) - 1))
             card == coll[Len(coll)]
             k    == Cardinality({ i \in 1..Len(rest) : ~localeLess(card.name, rest[i].name) })
         IN  SubSeq(rest, 1, k) \o << card >> \o SubSeq(rest, k + 1, Len(rest))

\* A faulty ExportLine, with no space between the quantity and the name.
ExportLine_NoSpace(card) ==
    Numeral(IF card.quantity = 0 THEN 1 ELSE card.quantity) \o card.name

\* `${card.quantity || 1} ${card.name}`
ExportLine(card) ==
    Numeral(IF card.quantity = 0 THEN 1 ELSE card.quantity) \o <<" ">> \o card.name

\* lines.join('\n')
RECURSIVE join(_)
join(ls) ==
    IF ls = << >> THEN << >>
    ELSE IF Len(ls) = 1 THEN ls[1]
    ELSE ls[1] \o <<"\n">> \o join(Tail(ls))

\* The text exportCollectionToDecklist returns for a persisted collection.
DecklistOf(coll) ==
    LET sorted == SortByName(coll) IN
    join([ k \in 1..Len(sorted) |-> ExportLine(sorted[k]) ])

\* storageService.exportCollectionToDecklist()
exportCollectionToDecklist ==
    /\ rpc = "idle"
    /\ decklistText' = DecklistOf(loadCollection)
    /\ rpc' = "called"
    /\ UNCHANGED <<lang, provider, cards, results, idx, batch, calls, outcome>>

\* The persisted collections that are exported: entries of quantity >= 1
\* with distinct names.
ExportCollections ==
    { coll \in UNION { [1..n -> ExportNames \X ExportQuantities] : n \in 0..MaxExport } :
        \A k, j \in 1..Len(coll) : k # j => coll[k][1] # coll[j][1] }

InitExport ==
    /\ UiIdle
    /\ \E coll \in ExportCollections :
          store = [ k \in 1..Len(coll) |->
                      NewCollectionEntry([id |-> k, name |-> coll[k][1]], coll[k][2], 0) ]
    /\ decksStore = <<>>
    /\ collection = <<>>
    /\ clock = 0
    /\ last = NoCall
    /\ ncalls = 0
    /\ FetchIdle
    /\ ResolveIdle

NextExport ==
    \/ exportCollectionToDecklist /\ UNCHANGED <<storeVars, fetchVars, uiVars>>
    \/ Tokenise /\ UNCHANGED <<storeVars, fetchVars, uiVars>>

SpecExport == InitExport /\ [][NextExport]_vars

-----------------------------------------------------------------------------
(***************************************************************************)
(* getCardCollection(identifiers): the batched lookup, chunk by chunk.     *)
(* `cards` holds the cards whose names are the identifiers, `provider` the *)
(* response the server gives to each POST, `idx` the position of the       *)
(* `for (const chunk of chunks)` loop, `results` the function's `results`, *)
(* `calls` the POSTs issued and `batch` what the function returned or      *)
(* threw.                                                                  *)
(***************************************************************************)

ChunkSize == 75
MaxIdentifiers == 151     \* identifier lists have 0..MaxIdentifiers elements

\* A faulty Chunks, leaving out the last chunk when it is not full.
Chunks_DropsRemainder(ids) ==
    LET n == Len(ids) \div ChunkSize IN
    [ c \in 1..n |-> SubSeq(ids, ChunkSize * (c - 1) + 1, ChunkSize * c) ]

\* for (i = 0; i < identifiers.length; i += 75) chunks.push(identifiers.slice(i, i + 75))
Chunks(ids) ==
    LET n == (Len(ids) + ChunkSize - 1) \div ChunkSize IN
    [ c \in 1..n |->
        SubSeq(ids, ChunkSize * (c - 1) + 1,
               IF ChunkSize * c < Len(ids) THEN ChunkSize * c ELSE Len(ids)) ]

chunks == Chunks(identifiers(cards))

\* The record of the card a numeric name stands for.
RecordOf(name) == [ id |-> ParseInt(name), name |-> name ]

\* Responses of POST /cards/collection to a chunk: an error status, a body
\* without records, the record of the first identifier, or every record.
ChunkResponses(chunk) ==
    { Threw, Returned(<< >>), Returned(<< RecordOf(chunk[1]) >>),
      Returned([ k \in 1..Len(chunk) |-> RecordOf(chunk[k]) ]) }

\* A faulty ChunkThrew, skipping the failed chunk and going on.
ChunkThrew_Continues ==
    /\ rpc = "collection"
    /\ idx <= Len(chunks)
    /\ ~provider[idx].ok
    /\ calls' = Append(calls, Lookup("getCardCollection", chunks[idx], NoLang))
    /\ idx' = idx + 1
    /\ UNCHANGED <<rpc, decklistText, lang, provider, cards, results, batch, outcome>>

\* rateLimitedFetch threw for the chunk: the exception leaves the loop and
\* the function.
ChunkThrew ==
    /\ rpc = "collection"
    /\ idx <= Len(chunks)
    /\ ~provider[idx].ok
    /\ calls' = Append(calls, Lookup("getCardCollection", chunks[idx], NoLang))
    /\ batch' = Threw
    /\ rpc' = "settled"
    /\ UNCHANGED <<decklistText, lang, provider, cards, results, idx, outcome>>

\* rateLimitedFetch returned for the chunk: results.push(...(data.data || []))
ChunkReturned ==
    /\ rpc = "collection"
    /\ idx <= Len(chunks)
    /\ provider[idx].ok
    /\ calls' = Append(calls, Lookup("getCardCollection", chunks[idx], NoLang))
    /\ results' = results \o provider[idx].data
    /\ idx' = idx + 1
    /\ UNCHANGED <<rpc, decklistText, lang, provider, cards, batch, outcome>>

\* return results
CollectionReturn ==
    /\ rpc = "collection"
    /\ idx > Len(chunks)
    /\ batch' = Returned(results)
    /\ rpc' = "settled"
    /\ UNCHANGED <<decklistText, lang, provider, cards, results, idx, calls, outcome>>

InitCollection ==
    /\ UiIdle
    /\ StoreInit
    /\ FetchIdle
    /\ rpc = "collection"
    /\ decklistText = << >>
    /\ lang = NoLang
    /\ \E n \in 0..MaxIdentifiers :
          cards = [ k \in 1..n |-> [ name |-> Numeral(k), quantity |-> 1 ] ]
    /\ provider \in [ 1..Len(chunks) -> UNION { ChunkResponses(chunks[c]) : c \in 1..Len(chunks) } ]
    /\ \A c \in 1..Len(chunks) : provider[c] \in ChunkResponses(chunks[c])
    /\ results = << >>
    /\ idx = 1
    /\ batch = << >>
    /\ calls = << >>
    /\ outcome = << >>

NextCollection ==
    \/ ChunkReturned /\ UNCHANGED <<storeVars, fetchVars, uiVars>>
    \/ ChunkThrew /\ UNCHANGED <<storeVars, fetchVars, uiVars>>
    \/ CollectionReturn /\ UNCHANGED <<storeVars, fetchVars, uiVars>>

SpecCollection == InitCollection /\ [][NextCollection]_vars

\* C20: when the call for a chunk fails, getCardCollection fails as a whole:
\* it throws, handing over none of the records of the chunks before, and the
\* failed call is the last one it issued.
C20_AllOrNothing ==
    rpc = "settled" =>
        \A c \in 1..Len(chunks) :
            (~provider[c].ok /\ \A d \in 1..(c - 1) : provider[d].ok)
                => /\ batch = Threw
                   /\ Len(calls) = c

\* C20 witness: of three chunks the first returned records, the second
\* failed and the call has ended.
C20_SecondOfThreeChunksFailed ==
    /\ rpc = "settled"
    /\ Len(chunks) = 3
    /\ provider[1].ok /\ Len(provider[1].data) = ChunkSize
    /\ ~provider[2].ok
    /\ Len(calls) = 2

\* The sequences of a sequence of sequences, concatenated in order.
RECURSIVE Concat(_)
Concat(seqs) ==
    IF seqs = << >> THEN << >> ELSE Head(seqs) \o Concat(Tail(seqs))

\* C21: a getCardCollection call in which no POST fails issues exactly
\* ceil(n / 75) POSTs for n identifiers (none for n = 0), each with at most
\* 75 identifiers; the identifiers of the POSTs, in call order, concatenate
\* to the identifier list, and the records returned are the responses'
\* records concatenated in call order.
C21_ChunkedLookup ==
    (rpc = "settled" /\ batch.ok) =>
        LET ids == identifiers(cards)
            n   == Len(ids)
        IN  /\ Len(calls) = (n + ChunkSize - 1) \div ChunkSize
            /\ (n = 0 => calls = << >>)
            /\ \A c \in 1..Len(calls) :
                  /\ calls[c].fn = "getCardCollection"
                  /\ Len(calls[c].arg) <= ChunkSize
            /\ Concat([ c \in 1..Len(calls) |-> calls[c].arg ]) = ids
            /\ batch.data = Concat([ c \in 1..Len(calls) |-> provider[c].data ])

\* C21 witness: a lookup of 151 identifiers has returned the 151 records of
\* its three POSTs.
C21_ThreeChunksReturned ==
    /\ rpc = "settled"
    /\ batch.ok
    /\ Len(cards) = 2 * ChunkSize + 1
    /\ Len(calls) = 3
    /\ Len(batch.data) = Len(cards)

-----------------------------------------------------------------------------
(***************************************************************************)
(* rateLimitedFetch called sequentially: a lookup starts only when the one *)
(* before it has returned (as in `await` inside a loop).  The response may *)
(* arrive at once or after any time.                                       *)
(***************************************************************************)

NoneInFlight == \A c \in Callers : pc[c] = "idle"

NextSequential ==
    \/ \E c \in Callers : NoneInFlight /\ Enter(c) /\ UNCHANGED <<storeVars, resolveVars, uiVars>>
    \/ \E c \in Callers : Resume(c) /\ UNCHANGED <<storeVars, resolveVars, uiVars>>
    \/ \E c \in Callers : Respond(c) /\ UNCHANGED <<storeVars, resolveVars, uiVars>>
    \/ Advance /\ UNCHANGED <<storeVars, resolveVars, uiVars>>

SpecSequential == InitFetch /\ [][NextSequential]_vars

\* C22: when lookups are issued one after another, the k-th fetch is called
\* at least (k - 1) * 100 ms after the first (3 lookups take at least 200 ms).
C22_SequentialSpacing ==
    \A k \in 1..Len(fired) : fired[k] - fired[1] >= (k - 1) * MinSpacing

\* C22 witness: three lookups issued one after another, each answered at
\* once, the third exactly 200 ms after the first.
C22_ThreeLookupsIn200ms ==
    /\ Len(fired) = 3
    /\ fired[3] - fired[1] = 2 * MinSpacing
    /\ NoneInFlight

-----------------------------------------------------------------------------
(***************************************************************************)
(* Frame properties of the reconciler.                                     *)
(***************************************************************************)

DeckCountOps ==
    {"addCardToDeck", "removeCardFromDeck", "updateCardInDeck", "createDeckFromDecklist"}

CollectionCountOps ==
    {"addCardToCollection", "removeCardFromCollection", "addDecklistToCollection"}

\* C23: addCardToDeck, removeCardFromDeck, updateCardInDeck and
\* createDeckFromDecklist leave the persisted collection unchanged, and
\* addCardToCollection, removeCardFromCollection and addDecklistToCollection
\* leave the persisted decks unchanged.
C23_IndependentCounts ==
    [][ ncalls' # ncalls =>
          /\ last'.op \in DeckCountOps => store' = store
          /\ last'.op \in CollectionCountOps => decksStore' = decksStore ]_vars

\* C23 witness: a deck was created from a decklist holding a card of which
\* the collection has an entry, and the entry has another quantity than the
\* deck's card.
C23_DeckOfCollectedCard ==
    /\ last.op = "createDeckFromDecklist"
    /\ last.saveOk
    /\ Len(store) = 1
    /\ Len(decksStore) = 1
    /\ Len(decksStore[1].cards) = 1
    /\ decksStore[1].cards[1].id = store[1].id
    /\ decksStore[1].cards[1].quantity # store[1].quantity

-----------------------------------------------------------------------------
(***************************************************************************)
(* The deck operations on a store that already holds decks.                *)
(***************************************************************************)

\* The deck lists createDeck has built by time t: up to two decks, in the
\* order of their creation.
CreatedDecks(t) ==
    { << >> } \cup
    { << NewDeck(d, t1) >> : d \in DeckDatas, t1 \in 0..t } \cup
    { << NewDeck(d1, t1), NewDeck(d2, t2) >> :
        d1 \in DeckDatas, d2 \in DeckDatas, t1 \in 0..t, t2 \in 0..t }

InitDecks ==
    /\ UiIdle
    /\ store = << >>
    /\ collection = << >>
    /\ clock \in 0..MaxClock
    /\ decksStore \in CreatedDecks(clock)
    /\ \A k, j \in 1..Len(decksStore) : k < j => decksStore[k].createdAt <= decksStore[j].createdAt
    /\ last = NoCall
    /\ ncalls = 0
    /\ FetchIdle
    /\ ResolveIdle

NextDecks ==
    \/ /\ ncalls < MaxCalls
       /\ \E id \in DeckIds, u \in DeckUpdates, saveOk \in BOOLEAN :
             updateDeck(id, u, saveOk)
       /\ OthersIdle
    \/ /\ ncalls < MaxCalls
       /\ \E id \in DeckIds, card \in Catalog, q \in Quantities, saveOk \in BOOLEAN :
             addCardToDeck(id, card, q, saveOk)
       /\ OthersIdle
    \/ /\ ncalls < MaxCalls
       /\ \E id \in DeckIds, cardId \in CardIds, q \in Quantities, saveOk \in BOOLEAN :
             removeCardFromDeck(id, cardId, q, saveOk)
       /\ OthersIdle
    \/ /\ ncalls < MaxCalls
       /\ \E id \in DeckIds, cardId \in CardIds, q \in 0..MaxAdd, saveOk \in BOOLEAN :
             updateCardInDeck(id, cardId, q, saveOk)
       /\ OthersIdle
    \/ Tick /\ OthersIdle

SpecDecks == InitDecks /\ [][NextDecks]_vars

DeckMutators == {"addCardToDeck", "removeCardFromDeck", "updateCardInDeck", "updateDeck"}

\* C24: addCardToDeck, removeCardFromDeck, updateCardInDeck and updateDeck
\* change no deck but the one they find, and a deck they change gets the
\* current time as its updatedAt; no deck's updatedAt ever decreases or is
\* earlier than its createdAt.
C24_UpdatedAtRefreshed ==
    [][ /\ Len(decksStore') = Len(decksStore)
        /\ \A k \in 1..Len(decksStore) :
              /\ decksStore'[k].updatedAt >= decksStore[k].updatedAt
              /\ decksStore'[k].updatedAt >= decksStore'[k].createdAt
              /\ decksStore'[k] # decksStore[k] =>
                    /\ last'.op \in DeckMutators
                    /\ k = DeckIndex(decksStore, last'.args.deckId)
                    /\ decksStore'[k].updatedAt = clock ]_vars

\* C24 witness: of two decks the first, created at time 0, got a card at
\* time 1, and the second is as it was.
C24_FirstDeckStamped ==
    /\ last.op = "addCardToDeck"
    /\ last.saveOk
    /\ Len(decksStore) = 2
    /\ decksStore[2] = last.pre[2]
    /\ decksStore[1].cards # last.pre[1].cards
    /\ decksStore[1].createdAt = 0
    /\ decksStore[1].updatedAt = 1

\* The cards an add call was given: their ids and names.
AddedCards(call) ==
    IF call.op = "addCardToCollection" THEN { call.args.card }
    ELSE IF call.op = "addCardsToCollection"
    THEN { call.args.cards[k].card : k \in 1..Len(call.args.cards) }
    ELSE { call.args.parsedCards[k].cardData :
             k \in { j \in 1..Len(call.args.parsedCards) : call.args.parsedCards[j].found } }

\* The list an add call merged into: the loaded list, or the context's state.
MergedInto(call) == IF call.op = "addCardsToCollection" THEN call.preCtx ELSE call.pre

\* C25: the list an add builds keeps every entry of the list it merged into
\* at its position, with every field but the quantity as it was; an entry
\* whose quantity changed matches one of the added cards.
C25_MergeChangesQuantityOnly ==
    last.op \in {"addCardToCollection", "addCardsToCollection", "addDecklistToCollection"} =>
        LET before == MergedInto(last)
            after  == last.result
        IN  /\ Len(after) >= Len(before)
            /\ \A k \in 1..Len(before) :
                  /\ after[k] = [before[k] EXCEPT !.quantity = after[k].quantity]
                  /\ after[k].quantity # before[k].quantity =>
                        \E card \in AddedCards(last) :
                           \/ before[k].id = card.id
                           \/ before[k].scryfallId = card.id
                           \/ before[k].name = card.name

\* C25 witness: at time 1 a decklist was added to a collection holding one
\* entry made at time 0; the entry was merged into and another was appended.
C25_MergedAndAppended ==
    /\ last.op = "addDecklistToCollection"
    /\ clock = 1
    /\ Len(last.pre) = 1
    /\ Len(last.result) = 2
    /\ last.pre[1].addedAt = 0
    /\ last.result[1].quantity > last.pre[1].quantity
    /\ last.result[2].addedAt = 1

-----------------------------------------------------------------------------
(***************************************************************************)
(* Two addCardToCollection calls that overlap (two taps on "add" in the    *)
(* search screen).  A call suspends at `await loadCollection()` and at     *)
(* `await saveCollection(collection)`; the merge between them runs without *)
(* suspension.                                                             *)
(***************************************************************************)

Tasks == {"first", "second"}

\* The persisted collections the calls start from: empty, or one entry.
StartCollections ==
    { << >> } \cup { << NewCollectionEntry(c, q, 0) >> : c \in Catalog, q \in Quantities }

\* AsyncStorage.getItem answers: the call resumes with the list stored now.
TaskLoad(t) ==
    /\ tasks[t].pc = "load"
    /\ tasks' = [tasks EXCEPT ![t].pc = "save", ![t].collection = loadCollection]
    /\ UNCHANGED <<store, decksStore, collection, clock, last, ncalls, screen, requests>>

\* The merged list is written, the call returns it and the context takes
\* it as its state.
TaskSave(t) ==
    LET updatedCollection ==
            addCard(tasks[t].collection, tasks[t].card, tasks[t].quantity, clock) IN
    /\ tasks[t].pc = "save"
    /\ store' = saveCollection(updatedCollection, TRUE)
    /\ collection' = updatedCollection
    /\ tasks' = [tasks EXCEPT ![t].pc = "done", ![t].collection = updatedCollection]
    /\ UNCHANGED <<decksStore, clock, last, ncalls, screen, requests>>

\* `last.pre` keeps the collection persisted before the two calls.
InitOverlap ==
    /\ store \in StartCollections
    /\ decksStore = << >>
    /\ collection = store
    /\ clock = 0
    /\ last = [NoCall EXCEPT !.pre = store]
    /\ ncalls = 0
    /\ FetchIdle
    /\ ResolveIdle
    /\ tasks \in [ Tasks -> { [ pc |-> "load", card |-> c, quantity |-> q, collection |-> << >> ] :
                                c \in Catalog, q \in Quantities } ]
    /\ screen = << >>
    /\ requests = << >>

NextOverlap ==
    \/ \E t \in Tasks : TaskLoad(t) /\ UNCHANGED <<fetchVars, resolveVars>>
    \/ \E t \in Tasks : TaskSave(t) /\ UNCHANGED <<fetchVars, resolveVars>>

SpecOverlap == InitOverlap /\ [][NextOverlap]_vars

\* The sum of the quantities of a list.
RECURSIVE TotalQuantity(_)
TotalQuantity(list) ==
    IF list = << >> THEN 0 ELSE Head(list).quantity + TotalQuantity(Tail(list))

\* C26: once two overlapping addCardToCollection calls adding a and b have
\* both completed, the persisted total quantity has grown by a + b.
C26_NoLostUpdate ==
    (\A t \in Tasks : tasks[t].pc = "done") =>
        TotalQuantity(store) =
            TotalQuantity(last.pre) + tasks["first"].quantity + tasks["second"].quantity

-----------------------------------------------------------------------------
(***************************************************************************)
(* The storage calls when the read of the store can fail: loadCollection   *)
(* and loadDecks catch the error of AsyncStorage.getItem (or JSON.parse)   *)
(* and return [].                                                          *)
(***************************************************************************)

\* loadCollection() when getItem answers (loadOk) or fails.
loadedCollection(loadOk) == IF loadOk THEN store ELSE << >>

\* loadDecks() when getItem answers (loadOk) or fails.
loadedDecks(loadOk) == IF loadOk THEN decksStore ELSE << >>

\* storageService.addCardToCollection(card, quantity)
addCardRead(card, quantity, loadOk) ==
    LET updated == addCard(loadedCollection(loadOk), card, quantity, clock) IN
    /\ Counted
    /\ store' = saveCollection(updated, TRUE)
    /\ last' = Call("addCardToCollection",
                    [card |-> card, quantity |-> quantity, loadOk |-> loadOk],
                    store, updated, TRUE, TRUE)
    /\ UNCHANGED <<decksStore, collection, clock>>

\* storageService.removeCardFromCollection(cardId, quantity)
removeCardRead(cardId, quantity, loadOk) ==
    LET updated == removeCard(loadedCollection(loadOk), cardId, quantity) IN
    /\ Counted
    /\ store' = saveCollection(updated, TRUE)
    /\ last' = Call("removeCardFromCollection",
                    [cardId |-> cardId, quantity |-> quantity, loadOk |-> loadOk],
                    store, updated, TRUE, TRUE)
    /\ UNCHANGED <<decksStore, collection, clock>>

\* storageService.addDecklistToCollection(parsedCards)
addDecklistRead(parsedCards, loadOk) ==
    LET updated == addDecklist(loadedCollection(loadOk), parsedCards, clock) IN
    /\ Counted
    /\ store' = saveCollection(updated, TRUE)
    /\ last' = Call("addDecklistToCollection",
                    [parsedCards |-> parsedCards, loadOk |-> loadOk],
                    store, updated, TRUE, TRUE)
    /\ UNCHANGED <<decksStore, collection, clock>>

\* storageService.createDeck(deckData)
createDeckRead(deckData, loadOk) ==
    LET newDeck == NewDeck(deckData, clock)
        decks   == Append(loadedDecks(loadOk), newDeck)
    IN
    /\ Counted
    /\ decksStore' = saveDecks(decks, TRUE)
    /\ last' = Call("createDeck", [deckData |-> deckData, loadOk |-> loadOk],
                    decksStore, newDeck, TRUE, TRUE)
    /\ UNCHANGED <<store, collection, clock>>

\* storageService.deleteDeck(deckId)
deleteDeckRead(deckId, loadOk) ==
    LET filteredDecks == SelectSeq(loadedDecks(loadOk), LAMBDA d : d.id # deckId) IN
    /\ Counted
    /\ decksStore' = saveDecks(filteredDecks, TRUE)
    /\ last' = Call("deleteDeck", [deckId |-> deckId, loadOk |-> loadOk],
                    decksStore, filteredDecks, TRUE, TRUE)
    /\ UNCHANGED <<store, collection, clock>>

InitRead ==
    /\ UiIdle
    /\ store \in StartCollections
    /\ decksStore \in CreatedDecks(0)
    /\ collection = store
    /\ clock = 0
    /\ last = NoCall
    /\ ncalls = 0
    /\ FetchIdle
    /\ ResolveIdle

NextRead ==
    \/ /\ ncalls < MaxCalls
       /\ \E card \in Catalog, q \in Quantities, loadOk \in BOOLEAN :
             addCardRead(card, q, loadOk)
       /\ OthersIdle
    \/ /\ ncalls < MaxCalls
       /\ \E id \in CardIds, q \in Quantities, loadOk \in BOOLEAN :
             removeCardRead(id, q, loadOk)
       /\ OthersIdle
    \/ /\ ncalls < MaxCalls
       /\ \E items \in ParsedLists, loadOk \in BOOLEAN : addDecklistRead(items, loadOk)
       /\ OthersIdle
    \/ /\ ncalls < MaxCalls
       /\ \E deckData \in DeckDatas, loadOk \in BOOLEAN : createDeckRead(deckData, loadOk)
       /\ OthersIdle
    \/ /\ ncalls < MaxCalls
       /\ \E id \in DeckIds, loadOk \in BOOLEAN : deleteDeckRead(id, loadOk)
       /\ OthersIdle

SpecRead == InitRead /\ [][NextRead]_vars

\* Every element of `before` is an element of `after`.
AllKept(before, after) ==
    \A k \in 1..Len(before) : \E j \in 1..Len(after) : after[j] = before[k]

\* C27: a call whose read of the store failed leaves every entry (or deck)
\* that was persisted before it persisted after it.
C27_FailedReadKeepsData ==
    [][ (ncalls' # ncalls /\ ~last'.args.loadOk) =>
            /\ AllKept(store, store')
            /\ AllKept(decksStore, decksStore') ]_vars

\* C28: after the context's addCardsToCollection, every entry that was
\* persisted just before the call is still persisted, with a quantity at
\* least as large.
C28_AddCardsKeepsEntries ==
    last.op = "addCardsToCollection" =>
        \A k \in 1..Len(last.pre) :
            \E j \in 1..Len(store) :
                /\ store[j].id = last.pre[k].id
                /\ store[j].quantity >= last.pre[k].quantity

\* C29: no two persisted decks have the same id.
C29_UniqueDeckIds ==
    \A k, j \in 1..Len(decksStore) : k # j => decksStore[k].id # decksStore[j].id

-----------------------------------------------------------------------------
(***************************************************************************)
(* screens/SearchScreen.js: handleSearch and loadMore.  A handler runs to  *)
(* its await, where its search joins `requests`; the rest of the handler   *)
(* runs when the response arrives, in any order.                           *)
(***************************************************************************)

MaxRequests == 3     \* at most MaxRequests searches are issued in a run
MaxPages == 2        \* every query has MaxPages pages of results

Queries == {"a", "b"}

\* The body of the response to a search for page `page` of `query`.
PageOf(query, page) ==
    [ data     |-> << [ query |-> query, page |-> page ] >>,
      has_more |-> page < MaxPages ]

Request(kind, query, page) == [ kind |-> kind, query |-> query, page |-> page, pending |-> TRUE ]

Pending(kind) == { r \in 1..Len(requests) : requests[r].pending /\ requests[r].kind = kind }

\* handleSearch(query), up to its await.
handleSearch(query) ==
    /\ Len(requests) < MaxRequests
    /\ screen' = [screen EXCEPT !.loading = TRUE, !.currentQuery = query, !.currentPage = 1]
    /\ requests' = Append(requests, Request("search", query, 1))

\* handleSearch: the search returned.
SearchReturned(r) ==
    LET data == PageOf(requests[r].query, requests[r].page) IN
    /\ r \in Pending("search") \cup Pending("fallback")
    /\ screen' = [screen EXCEPT !.results = data.data, !.hasMore = data.has_more,
                                !.loading = FALSE]
    /\ requests' = [requests EXCEPT ![r].pending = FALSE]

\* handleSearch: the search threw; the any-language search is awaited.
SearchThrew(r) ==
    /\ r \in Pending("search")
    /\ requests' = [requests EXCEPT ![r].kind = "fallback"]
    /\ UNCHANGED screen

\* handleSearch: the any-language search threw as well.
FallbackThrew(r) ==
    /\ r \in Pending("fallback")
    /\ screen' = [screen EXCEPT !.results = << >>, !.loading = FALSE]
    /\ requests' = [requests EXCEPT ![r].pending = FALSE]

\* loadMore(), up to its await.
loadMore ==
    /\ Len(requests) < MaxRequests
    /\ screen.hasMore /\ ~screen.loading
    /\ screen' = [screen EXCEPT !.loading = TRUE]
    /\ requests' = Append(requests, Request("more", screen.currentQuery, screen.currentPage + 1))

\* loadMore: the search returned.
MoreReturned(r) ==
    LET data == PageOf(requests[r].query, requests[r].page) IN
    /\ r \in Pending("more")
    /\ screen' = [screen EXCEPT !.results = @ \o data.data, !.currentPage = @ + 1,
                                !.hasMore = data.has_more, !.loading = FALSE]
    /\ requests' = [requests EXCEPT ![r].pending = FALSE]

\* loadMore: the search threw.
MoreThrew(r) ==
    /\ r \in Pending("more")
    /\ screen' = [screen EXCEPT !.loading = FALSE]
    /\ requests' = [requests EXCEPT ![r].pending = FALSE]

InitScreen ==
    /\ StoreInit
    /\ FetchIdle
    /\ ResolveIdle
    /\ tasks = << >>
    /\ screen = [ results |-> << >>, loading |-> FALSE, currentPage |-> 1,
                  hasMore |-> FALSE, currentQuery |-> "" ]
    /\ requests = << >>

ScreenOnly == UNCHANGED <<storeVars, fetchVars, resolveVars, tasks>>

NextScreen ==
    \/ \E query \in Queries : handleSearch(query) /\ ScreenOnly
    \/ \E r \in 1..Len(requests) : SearchReturned(r) /\ ScreenOnly
    \/ \E r \in 1..Len(requests) : SearchThrew(r) /\ ScreenOnly
    \/ \E r \in 1..Len(requests) : FallbackThrew(r) /\ ScreenOnly
    \/ loadMore /\ ScreenOnly
    \/ \E r \in 1..Len(requests) : MoreReturned(r) /\ ScreenOnly
    \/ \E r \in 1..Len(requests) : MoreThrew(r) /\ ScreenOnly

SpecScreen == InitScreen /\ [][NextScreen]_vars

\* C30: once every search has completed, the results are cards of
\* currentQuery, its pages from 1 on in order and none beyond currentPage,
\* and loading is false.
C30_ResultsOfCurrentQuery ==
    (\A r \in 1..Len(requests) : ~requests[r].pending) =>
        /\ ~screen.loading
        /\ Len(screen.results) <= screen.currentPage
        /\ \A k \in 1..Len(screen.results) :
              /\ screen.results[k].query = screen.currentQuery
              /\ screen.results[k].page = k

=============================================================================
